---- MODULE Spec2Model ----
(***************************************************************************)
(* A model of the desru discrete-event simulation core (src/src/lib.rs):   *)
(* Event, EventScheduler, the run loop and the max-time stop condition.    *)
(*                                                                         *)
(* Times (f64 in the source) are modelled by integers; NaN, on which       *)
(* Ord::cmp panics, is outside the model.  An action closure is modelled   *)
(* by a record naming what it does when called; Option<T> is modelled by a *)
(* sequence of length at most one.  BinaryHeap<Event> is modelled by the    *)
(* set of queued events: pop takes an event that is greatest by Ord::cmp,  *)
(* and which one among several of equal time is left open, as the heap     *)
(* promises no order among equal elements.  Each event carries an id that  *)
(* the source does not have; it only names the event in the history        *)
(* variables and no modelled operation reads it.                           *)
(***************************************************************************)
EXTENDS Integers, Sequences, FiniteSets, TLC

\* The bound of the model: the calls of schedule and timeout a caller makes.
MaxCalls == 2

\* The times a caller schedules at, and the delays it and the actions use.
Times == {0, 1, 2}
Delays == {-1, 1}

---------------------------------------------------------------------------
\* Option<T>
None == <<>>
Some(x) == <<x>>
UnwrapOr(opt, default) == IF opt = None THEN default ELSE opt[1]

\* HashMap<String, String>, as a set of <<key, value>> pairs
EmptyCtx == {}
KeyCtx == {<<"key", "value">>}

\* Box<dyn FnMut(&mut EventScheduler) -> Option<String>>
NoopAction == [kind |-> "noop", delay |-> 0]
RetAction == [kind |-> "ret", delay |-> 0]
TimeoutAction(d) == [kind |-> "timeout", delay |-> d]

\* The car of the crate's documentation: its durations and its run's limit,
\* and the closures of the events it schedules, one calling drive and one
\* calling park.
PARK_DURATION == 5
DRIVE_DURATION == 2
MAX_TIME == 15
DriveAction == [kind |-> "drive", delay |-> DRIVE_DURATION]
ParkAction == [kind |-> "park", delay |-> PARK_DURATION]

\* The events a caller makes in this model, as <<action, context, calls>>: the
\* arguments of Event::new and the calls made on the event before it is
\* scheduled.
EventArgs ==
    {<<None, None, "none">>,
     <<Some(RetAction), Some(KeyCtx), "none">>,
     <<Some(RetAction), None, "deactivate">>}
    \cup {<<Some(TimeoutAction(d)), None, "none">> : d \in Delays}

\* The arguments of timeout, as <<action, context>>
TimeoutArgs == {<<None, None>>}

---------------------------------------------------------------------------
\* Event

Event_new(id, time, action, context) ==
    [id |-> id,
     time |-> time,
     action |-> UnwrapOr(action, NoopAction),
     context |-> UnwrapOr(context, EmptyCtx),
     active |-> TRUE]

\* Event_clone with the action carried over to the copy.
Event_clone_KeepsAction(self) ==
    [id |-> self.id,
     time |-> self.time,
     action |-> self.action,
     context |-> self.context,
     active |-> self.active]

Event_clone(self) ==
    [id |-> self.id,
     time |-> self.time,
     action |-> NoopAction,
     context |-> self.context,
     active |-> self.active]

\* Activate that leaves the flag as it is.
Event_activate_Noop(self) == self

Event_activate(self) == [self EXCEPT !.active = TRUE]

Event_deactivate(self) == [self EXCEPT !.active = FALSE]

\* The call of the closure with its result dropped.
ActionCall_DropsResult(action, now, id) ==
    [result |-> None,
     scheduled |-> IF action.kind = "timeout"
                   THEN {Event_new(id, now + action.delay, None, None)}
                   ELSE {}]

\* What calling the closure does: the result it returns and the events it
\* schedules on the scheduler it is given (whose clock reads now).
ActionCall(action, now, id) ==
    CASE action.kind = "ret" ->
           [result |-> Some("Executed"), scheduled |-> {}]
      [] action.kind = "timeout" ->
           [result |-> None,
            scheduled |-> {Event_new(id, now + action.delay, None, None)}]
      [] action.kind = "drive" ->
           [result |-> None,
            scheduled |-> {Event_new(id, now + DRIVE_DURATION, Some(ParkAction), None)}]
      [] action.kind = "park" ->
           [result |-> None,
            scheduled |-> {Event_new(id, now + PARK_DURATION, Some(DriveAction), None)}]
      [] OTHER ->
           [result |-> None, scheduled |-> {}]

\* Event_run without the test of the active flag.
Event_run_IgnoresActive(self, now, id) == ActionCall(self.action, now, id)

Event_run(self, now, id) ==
    IF self.active
    THEN ActionCall(self.action, now, id)
    ELSE [result |-> None, scheduled |-> {}]

\* Event_cmp on the times as they are: the latest event is the greatest.
Event_cmp_NotReversed(self, other) ==
    IF self.time < other.time THEN -1 ELSE IF self.time = other.time THEN 0 ELSE 1

\* Ord::cmp: Less, Equal, Greater as -1, 0, 1, on the times reversed.
PartialCmp(x, y) == IF x < y THEN -1 ELSE IF x = y THEN 0 ELSE 1
Event_cmp(self, other) == PartialCmp(other.time, self.time)

\* Equality on the time, the context and the active flag together.
Event_eq_Structural(self, other) ==
    /\ self.time = other.time
    /\ self.context = other.context
    /\ self.active = other.active

\* PartialEq::eq
Event_eq(self, other) == self.time = other.time

---------------------------------------------------------------------------
\* HeapTop of a queue that is no heap: any queued event may come first.
HeapTop_Any(queue) == queue

\* BinaryHeap<Event>: the greatest events by Ord::cmp
HeapTop(queue) == {e \in queue : \A o \in queue : Event_cmp(e, o) >= 0}

---------------------------------------------------------------------------
\* Stop conditions and log filters

StopNever == [kind |-> "never", t |-> 0]
StopAlways == [kind |-> "always", t |-> 0]
StopTimeGe(t) == [kind |-> "time_ge", t |-> t]
stop_at_max_time_factory(max_time) == [kind |-> "max_time", t |-> max_time]

\* Peek on a heap ordered by the times as they are: it shows a latest event.
Peek_Latest(queue) ==
    IF queue = {} THEN None
    ELSE Some(CHOOSE e \in queue : \A o \in queue : o.time <= e.time)

\* BinaryHeap::peek, as Option; which of several greatest events it shows
\* does not matter to its one use, which reads the time.
Peek(queue) == IF queue = {} THEN None ELSE Some(CHOOSE e \in HeapTop(queue) : TRUE)

\* The predicate on the clock alone, without the look at the next event.
MaxTimePredicate_ClockOnly(max_time, now, queue) == now >= max_time

\* The predicate with > for >= on the next event's time.
MaxTimePredicate_Strict(max_time, now, queue) ==
    \/ now >= max_time
    \/ IF Peek(queue) = None THEN TRUE ELSE Peek(queue)[1].time > max_time

\* The closure stop_at_max_time_factory returns
MaxTimePredicate(max_time, now, queue) ==
    \/ now >= max_time
    \/ IF Peek(queue) = None THEN TRUE ELSE Peek(queue)[1].time >= max_time

\* The stop predicates with current_time >= t looking at the next event too.
StopCall_LooksAhead(stop, now, queue) ==
    CASE stop.kind = "never" -> FALSE
      [] stop.kind = "always" -> TRUE
      [] stop.kind = "time_ge" -> MaxTimePredicate(stop.t, now, queue)
      [] stop.kind = "max_time" -> MaxTimePredicate(stop.t, now, queue)

StopCall(stop, now, queue) ==
    CASE stop.kind = "never" -> FALSE
      [] stop.kind = "always" -> TRUE
      [] stop.kind = "time_ge" -> now >= stop.t
      [] stop.kind = "max_time" -> MaxTimePredicate(stop.t, now, queue)

FilterCall(log_filter, ev, result) ==
    CASE log_filter = "reject_all" -> FALSE
      [] log_filter = "has_result" -> result # None
      [] OTHER -> TRUE

\* The arguments of run, as <<stop, log_filter>>, and of run_until_max_time
\* in this model.
RunArgs ==
    {<<StopNever, None>>,
     <<StopNever, Some("reject_all")>>,
     <<StopAlways, None>>,
     <<StopTimeGe(1), None>>}
MaxTimeArgs == {1}

\* The events, as <<action, context, calls>>, and the runs in the model of
\* activate and deactivate, and the calls made on a handle.
ToggleEventArgs ==
    {<<Some(RetAction), None, "deactivate_activate">>,
     <<Some(RetAction), None, "deactivate">>,
     <<Some(RetAction), Some(KeyCtx), "none">>,
     <<Some(TimeoutAction(1)), None, "deactivate_activate">>}
ToggleRunArgs == {<<StopNever, None>>, <<StopAlways, None>>}
HandleCalls == {"activate", "deactivate"}

\* The events whose actions schedule nothing, and the runs, in the model of
\* the loop running to its end.
LiveEventArgs == {a \in EventArgs : UnwrapOr(a[1], NoopAction).kind \in {"noop", "ret"}}
LiveRunArgs == {<<StopNever, None>>, <<StopAlways, None>>}

\* The arguments of run in the model of logging: filters that read the
\* result, reject everything, or are left to the default.
LogRunArgs ==
    {<<StopNever, Some("has_result")>>,
     <<StopNever, Some("reject_all")>>,
     <<StopTimeGe(1), None>>}

\* The limits the car's runs are given: of run_until_max_time, and of run
\* with the stop predicate current_time >= t.
CarMaxTimes == {5, 8, 13, MAX_TIME, 20}
CarStopTimes == {5, 6}

---------------------------------------------------------------------------
---------------------------------------------------------------------------
VARIABLES
    current_time,   \* EventScheduler.current_time
    event_queue,    \* EventScheduler.event_queue
    event_log,      \* EventScheduler.event_log
    pc,             \* where the caller is: "idle", in run ("loop", "exec"), "returned"
    stop,           \* run's stop argument
    log_filter,     \* run's log_filter after unwrap_or_else
    event,          \* run's local: the popped event, as Option
    returned,       \* the value of the latest run call
    scheduled,      \* history: for each id, how the event was scheduled
    executed,       \* history: the executions, in order
    entry           \* history: the scheduler at the latest call of run

vars == <<current_time, event_queue, event_log, pc, stop, log_filter, event,
          returned, scheduled, executed, entry>>

hist == <<scheduled, executed, entry>>

Idle == pc \in {"idle", "returned"}

\* The calls of schedule and timeout made by the caller so far (an action
\* schedules at most one event, whose own action schedules nothing).
Calls == Cardinality({i \in 1..Len(scheduled) : scheduled[i].by = 0})

NoEntry == [time |-> 0, queue |-> {}, log |-> <<>>, nexec |-> 0]

Init ==
    /\ current_time = 0
    /\ event_queue = {}
    /\ event_log = <<>>
    /\ pc = "idle"
    /\ stop = StopNever
    /\ log_filter = "all"
    /\ event = None
    /\ returned = <<>>
    /\ scheduled = <<>>
    /\ executed = <<>>
    /\ entry = NoEntry

\* Between calls of run its arguments are gone; the history of the latest
\* call is kept until the scheduler is next used.
Forget ==
    /\ stop' = StopNever
    /\ log_filter' = "all"
    /\ entry' = NoEntry

\* Push onto a queue that keeps the new event only.
Push_Replace(queue, ev) == {ev}

\* BinaryHeap::push
Push(queue, ev) == queue \cup {ev}

ScheduleRecord(ev, by) ==
    [event |-> ev, by |-> by, clock |-> current_time,
     queued |-> {e.id : e \in event_queue}]

\* The calls of activate and deactivate made on an event before it is
\* scheduled.
Toggle(ev, calls) ==
    CASE calls = "deactivate" -> Event_deactivate(ev)
      [] calls = "deactivate_activate" -> Event_activate(Event_deactivate(ev))
      [] OTHER -> ev

\* schedule(event), called between runs, of an event made by Event::new
Schedule(time, action, context, calls) ==
    LET ev == Toggle(Event_new(Len(scheduled) + 1, time, action, context), calls) IN
    /\ Idle
    /\ Calls < MaxCalls
    /\ event_queue' = Push(event_queue, ev)
    /\ scheduled' = Append(scheduled, ScheduleRecord(ev, 0))
    /\ pc' = "idle"
    /\ Forget
    /\ UNCHANGED <<current_time, event_log, event, returned, executed>>

\* Timeout with the delay taken as the time, whatever the clock reads.
Timeout_FromZero(delay, action, context) ==
    LET ev == Event_new(Len(scheduled) + 1, delay, action, context) IN
    /\ Idle
    /\ Calls < MaxCalls
    /\ event_queue' = Push(event_queue, ev)
    /\ scheduled' = Append(scheduled, ScheduleRecord(ev, 0))
    /\ pc' = "idle"
    /\ Forget
    /\ UNCHANGED <<current_time, event_log, event, returned, executed>>

\* EventScheduler::timeout, called between runs
Timeout(delay, action, context) ==
    LET ev == Event_new(Len(scheduled) + 1, current_time + delay, action, context) IN
    /\ Idle
    /\ Calls < MaxCalls
    /\ event_queue' = Push(event_queue, ev)
    /\ scheduled' = Append(scheduled, ScheduleRecord(ev, 0))
    /\ pc' = "idle"
    /\ Forget
    /\ UNCHANGED <<current_time, event_log, event, returned, executed>>

\* car(&mut scheduler), called once by main: park schedules the event that
\* starts the drive
Car ==
    LET ev == Event_new(Len(scheduled) + 1, current_time + PARK_DURATION,
                        Some(DriveAction), None) IN
    /\ Idle
    /\ scheduled = <<>>
    /\ event_queue' = Push(event_queue, ev)
    /\ scheduled' = Append(scheduled, ScheduleRecord(ev, 0))
    /\ pc' = "idle"
    /\ Forget
    /\ UNCHANGED <<current_time, event_log, event, returned, executed>>

\* event.activate() or event.deactivate() on an event the caller holds
HandleCall(ev, call) ==
    IF call = "activate" THEN Event_activate(ev) ELSE Event_deactivate(ev)

\* The caller toggles the latest event of the log that run returned to it.
ToggleReturned(call) ==
    /\ Idle
    /\ returned # <<>>
    /\ returned' = [returned EXCEPT ![Len(returned)].event = HandleCall(@, call)]
    /\ returned' # returned
    /\ UNCHANGED <<current_time, event_queue, event_log, pc, stop, log_filter,
                   event, hist>>

\* The caller toggles the latest event of the scheduler's event_log, a
\* public field.
ToggleLogged(call) ==
    /\ Idle
    /\ event_log # <<>>
    /\ event_log' = [event_log EXCEPT ![Len(event_log)].event = HandleCall(@, call)]
    /\ event_log' # event_log
    /\ UNCHANGED <<current_time, event_queue, pc, stop, log_filter, event,
                   returned, hist>>

\* EventScheduler::run: the call
RunEnter(stop_arg, filter_arg) ==
    /\ Idle
    /\ pc' = "loop"
    /\ stop' = stop_arg
    /\ log_filter' = UnwrapOr(filter_arg, "all")
    /\ entry' = [time |-> current_time, queue |-> event_queue,
                 log |-> event_log, nexec |-> Len(executed)]
    /\ UNCHANGED <<current_time, event_queue, event_log, event, returned,
                   scheduled, executed>>

Run(stop_arg, filter_arg) == RunEnter(stop_arg, filter_arg)

\* EventScheduler::run_until_max_time
RunUntilMaxTime(max_time) == RunEnter(stop_at_max_time_factory(max_time), None)

\* Vec::clone of the log: each event by Event::clone
CloneLog(log) == [i \in 1..Len(log) |->
                    [event |-> Event_clone(log[i].event), result |-> log[i].result]]

\* The return of the entries this call added only.
ReturnValue_NewEntries ==
    CloneLog(SubSeq(event_log, Len(entry.log) + 1, Len(event_log)))

\* self.event_log.clone()
ReturnValue == CloneLog(event_log)

RunReturn ==
    /\ pc' = "returned"
    /\ returned' = ReturnValue
    /\ event' = None
    /\ UNCHANGED <<current_time, event_queue, event_log, stop, log_filter, hist>>

\* The loop without its stop predicate.
WhileCond_NoStop == TRUE

\* while !stop(self)
WhileCond == ~StopCall(stop, current_time, event_queue)

\* the stop predicate holds: the loop ends
RunStop ==
    /\ pc = "loop"
    /\ ~WhileCond
    /\ RunReturn

\* The pop with a clock that only moves forward.
RunPop_ClockForwardOnly ==
    /\ pc = "loop"
    /\ WhileCond
    /\ event_queue # {}
    /\ \E ev \in HeapTop(event_queue) :
         /\ event_queue' = event_queue \ {ev}
         /\ current_time' = IF ev.time > current_time THEN ev.time ELSE current_time
         /\ event' = Some(ev)
    /\ pc' = "exec"
    /\ UNCHANGED <<event_log, stop, log_filter, returned, hist>>

\* The pop without the assignment of the clock.
RunPop_KeepsClock ==
    /\ pc = "loop"
    /\ WhileCond
    /\ event_queue # {}
    /\ \E ev \in HeapTop(event_queue) :
         /\ event_queue' = event_queue \ {ev}
         /\ event' = Some(ev)
    /\ pc' = "exec"
    /\ UNCHANGED <<current_time, event_log, stop, log_filter, returned, hist>>

\* if let Some(mut event) = self.event_queue.pop() { self.current_time = event.time;
RunPop ==
    /\ pc = "loop"
    /\ WhileCond
    /\ event_queue # {}
    /\ \E ev \in HeapTop(event_queue) :
         /\ event_queue' = event_queue \ {ev}
         /\ current_time' = ev.time
         /\ event' = Some(ev)
    /\ pc' = "exec"
    /\ UNCHANGED <<event_log, stop, log_filter, returned, hist>>

\* The loop going round on an empty queue in place of the break.
RunBreak_Continue ==
    /\ pc = "loop"
    /\ WhileCond
    /\ event_queue = {}
    /\ UNCHANGED vars

\* } else { break; }
RunBreak ==
    /\ pc = "loop"
    /\ WhileCond
    /\ event_queue = {}
    /\ RunReturn

\* The push at the front of the log.
LogPush_Front(log, accepted, ev, result) ==
    IF accepted THEN <<[event |-> ev, result |-> result]>> \o log ELSE log

\* The push without the filter's verdict.
LogPush_Always(log, accepted, ev, result) ==
    Append(log, [event |-> ev, result |-> result])

\* if log_filter(&event, &event_result) { self.event_log.push((event, event_result)); }
LogPush(log, accepted, ev, result) ==
    IF accepted THEN Append(log, [event |-> ev, result |-> result]) ELSE log

\* The execution with the executed event pushed back onto the queue.
RunExec_Requeues ==
    /\ pc = "exec"
    /\ LET ev == event[1]
           out == Event_run(ev, current_time, Len(scheduled) + 1)
           accepted == FilterCall(log_filter, ev, out.result)
       IN
       /\ event_queue' = Push(event_queue \cup out.scheduled, ev)
       /\ scheduled' = scheduled \o
              (IF out.scheduled = {} THEN <<>>
               ELSE <<ScheduleRecord(CHOOSE n \in out.scheduled : TRUE, ev.id)>>)
       /\ event_log' = LogPush(event_log, accepted, ev, out.result)
       /\ executed' = Append(executed,
              [id |-> ev.id, time |-> ev.time, active |-> ev.active,
               result |-> out.result, accepted |-> accepted])
    /\ event' = None
    /\ pc' = "loop"
    /\ UNCHANGED <<current_time, stop, log_filter, returned, entry>>

\* The execution that logs active events only.
RunExec_DropsInactive ==
    /\ pc = "exec"
    /\ LET ev == event[1]
           out == Event_run(ev, current_time, Len(scheduled) + 1)
           accepted == ev.active /\ FilterCall(log_filter, ev, out.result)
       IN
       /\ event_queue' = event_queue \cup out.scheduled
       /\ scheduled' = scheduled \o
              (IF out.scheduled = {} THEN <<>>
               ELSE <<ScheduleRecord(CHOOSE n \in out.scheduled : TRUE, ev.id)>>)
       /\ event_log' = LogPush(event_log, accepted, ev, out.result)
       /\ executed' = Append(executed,
              [id |-> ev.id, time |-> ev.time, active |-> ev.active,
               result |-> out.result, accepted |-> accepted])
    /\ event' = None
    /\ pc' = "loop"
    /\ UNCHANGED <<current_time, stop, log_filter, returned, entry>>

\* The execution with the filter asked before the action has run, when
\* there is no result yet.
RunExec_FilterFirst ==
    /\ pc = "exec"
    /\ LET ev == event[1]
           accepted == FilterCall(log_filter, ev, None)
           out == Event_run(ev, current_time, Len(scheduled) + 1)
       IN
       /\ event_queue' = event_queue \cup out.scheduled
       /\ scheduled' = scheduled \o
              (IF out.scheduled = {} THEN <<>>
               ELSE <<ScheduleRecord(CHOOSE n \in out.scheduled : TRUE, ev.id)>>)
       /\ event_log' = LogPush(event_log, accepted, ev, out.result)
       /\ executed' = Append(executed,
              [id |-> ev.id, time |-> ev.time, active |-> ev.active,
               result |-> out.result, accepted |-> accepted])
    /\ event' = None
    /\ pc' = "loop"
    /\ UNCHANGED <<current_time, stop, log_filter, returned, entry>>

\* let event_result = event.run(self); and the logging of the event
RunExec ==
    /\ pc = "exec"
    /\ LET ev == event[1]
           out == Event_run(ev, current_time, Len(scheduled) + 1)
           accepted == FilterCall(log_filter, ev, out.result)
       IN
       /\ event_queue' = event_queue \cup out.scheduled
       /\ scheduled' = scheduled \o
              (IF out.scheduled = {} THEN <<>>
               ELSE <<ScheduleRecord(CHOOSE n \in out.scheduled : TRUE, ev.id)>>)
       /\ event_log' = LogPush(event_log, accepted, ev, out.result)
       /\ executed' = Append(executed,
              [id |-> ev.id, time |-> ev.time, active |-> ev.active,
               result |-> out.result, accepted |-> accepted])
    /\ event' = None
    /\ pc' = "loop"
    /\ UNCHANGED <<current_time, stop, log_filter, returned, entry>>

---------------------------------------------------------------------------
RECURSIVE RunFrom(_, _, _)

\* The loop with the action run only for the events the filter accepts.
RunFrom_RunsAcceptedOnly(st, stop_arg, filter) ==
    IF StopCall(stop_arg, st.time, st.queue) \/ st.queue = {}
    THEN {st}
    ELSE UNION {
        LET accepted == FilterCall(filter, ev, None)
            out == IF accepted THEN Event_run(ev, ev.time, st.nid)
                   ELSE [result |-> None, scheduled |-> {}]
        IN  RunFrom([time |-> ev.time,
                     queue |-> (st.queue \ {ev}) \cup out.scheduled,
                     log |-> LogPush(st.log, accepted, ev, out.result),
                     exec |-> Append(st.exec, [event |-> ev, result |-> out.result]),
                     nid |-> st.nid + Cardinality(out.scheduled)],
                    stop_arg, filter)
        : ev \in HeapTop(st.queue)}

\* EventScheduler::run as a function of the scheduler it is called on: the
\* schedulers the loop may leave, one for each way the heap may order the
\* events of equal time.  st is the scheduler: its clock, queue and log,
\* with the executions so far and the id of the next event made.
RunFrom(st, stop_arg, filter) ==
    IF StopCall(stop_arg, st.time, st.queue) \/ st.queue = {}
    THEN {st}
    ELSE UNION {
        LET out == Event_run(ev, ev.time, st.nid)
            accepted == FilterCall(filter, ev, out.result)
        IN  RunFrom([time |-> ev.time,
                     queue |-> (st.queue \ {ev}) \cup out.scheduled,
                     log |-> LogPush(st.log, accepted, ev, out.result),
                     exec |-> Append(st.exec, [event |-> ev, result |-> out.result]),
                     nid |-> st.nid + Cardinality(out.scheduled)],
                    stop_arg, filter)
        : ev \in HeapTop(st.queue)}

---------------------------------------------------------------------------
Next ==
    \/ \E t \in Times, a \in EventArgs : Schedule(t, a[1], a[2], a[3])
    \/ \E d \in Delays, a \in TimeoutArgs : Timeout(d, a[1], a[2])
    \/ \E a \in RunArgs : Run(a[1], a[2])
    \/ \E m \in MaxTimeArgs : RunUntilMaxTime(m)
    \/ RunStop
    \/ RunPop
    \/ RunBreak
    \/ RunExec

Spec == Init /\ [][Next]_vars

\* The car process: main starts the car and runs the scheduler.
NextCar ==
    \/ Car
    \/ \E m \in CarMaxTimes : RunUntilMaxTime(m)
    \/ \E t \in CarStopTimes : Run(StopTimeGe(t), None)
    \/ RunStop
    \/ RunPop
    \/ RunBreak
    \/ RunExec

SpecCar == Init /\ [][NextCar]_vars

\* The scheduler with a loop that, once entered, keeps taking its steps:
\* run is synchronous code and nothing preempts it.
NextLive ==
    \/ \E t \in Times, a \in LiveEventArgs : Schedule(t, a[1], a[2], a[3])
    \/ \E d \in Delays, a \in TimeoutArgs : Timeout(d, a[1], a[2])
    \/ \E a \in LiveRunArgs : Run(a[1], a[2])
    \/ RunStop
    \/ RunPop
    \/ RunBreak
    \/ RunExec

SpecLive ==
    /\ Init
    /\ [][NextLive]_vars
    /\ WF_vars(RunStop \/ RunPop \/ RunBreak \/ RunExec)

\* The scheduler with events toggled before they are scheduled and
\* handles toggled after the events were executed.
NextToggle ==
    \/ \E t \in Times, a \in ToggleEventArgs : Schedule(t, a[1], a[2], a[3])
    \/ \E a \in ToggleRunArgs : Run(a[1], a[2])
    \/ \E c \in HandleCalls : ToggleReturned(c)
    \/ \E c \in HandleCalls : ToggleLogged(c)
    \/ RunStop
    \/ RunPop
    \/ RunBreak
    \/ RunExec

SpecToggle == Init /\ [][NextToggle]_vars

\* The scheduler run with log filters.
NextLog ==
    \/ \E t \in Times, a \in EventArgs : Schedule(t, a[1], a[2], a[3])
    \/ \E d \in Delays, a \in TimeoutArgs : Timeout(d, a[1], a[2])
    \/ \E a \in LogRunArgs : Run(a[1], a[2])
    \/ RunStop
    \/ RunPop
    \/ RunBreak
    \/ RunExec

SpecLog == Init /\ [][NextLog]_vars

---------------------------------------------------------------------------
\* Reading the history

InCall == pc \in {"loop", "exec", "returned"}

\* The executions of the latest call of run, in order.
RunExecuted == SubSeq(executed, entry.nexec + 1, Len(executed))

\* The place of event id in the order of execution, 0 if it has not run.
ExecPos(id) ==
    IF \E k \in 1..Len(executed) : executed[k].id = id
    THEN CHOOSE k \in 1..Len(executed) : executed[k].id = id
    ELSE 0

NonDecreasing(seq) ==
    \A i \in 1..Len(seq) : \A j \in i..Len(seq) : seq[i].time <= seq[j].time

SchedulesNothing(queue) == \A e \in queue : e.action.kind \in {"noop", "ret"}

LogIds(log) == {log[i].event.id : i \in 1..Len(log)}

---------------------------------------------------------------------------
\* C1: a run whose stop predicate is never true, on events whose actions
\* schedule nothing, executes the events in non-decreasing order of time,
\* and after each execution current_time is the time of the event just
\* executed.
C1_RunExecutesInTimeOrder ==
    (InCall /\ stop = StopNever /\ SchedulesNothing(entry.queue)) =>
        /\ NonDecreasing(RunExecuted)
        /\ (pc \in {"loop", "returned"} /\ Len(RunExecuted) > 0) =>
               current_time = executed[Len(executed)].time

C1_Witness ==
    /\ pc = "returned"
    /\ stop = StopNever
    /\ SchedulesNothing(entry.queue)
    /\ Len(RunExecuted) = 2
    /\ RunExecuted[1].time < RunExecuted[2].time
    /\ scheduled[RunExecuted[1].id].queued # {}

\* C2: current_time starts at 0 and never decreases: every executed event
\* has a time greater than or equal to that of every event executed before
\* it, whatever the times and delays events are scheduled with.
C2_ClockNeverDecreases ==
    /\ NonDecreasing(executed)
    /\ \A k \in 1..Len(executed) : executed[k].time >= 0
    /\ current_time >= 0

\* C3: run_until_max_time(max_time) executes only events whose time is
\* below max_time; an event pending at the call whose time is max_time or
\* more stays queued and unlogged; of two events, one below and one not
\* below max_time, exactly the first is executed and the returned log has
\* length 1.
C3_MaxTimeBoundary ==
    (InCall /\ stop.kind = "max_time") =>
        /\ \A k \in 1..Len(RunExecuted) : RunExecuted[k].time < stop.t
        /\ pc = "exec" => event[1].time < stop.t
        /\ \A e \in entry.queue :
               e.time >= stop.t =>
                   /\ e \in event_queue
                   /\ ExecPos(e.id) = 0
                   /\ e.id \notin LogIds(event_log)
        /\ (/\ pc = "returned"
            /\ entry.log = <<>>
            /\ entry.time < stop.t
            /\ SchedulesNothing(entry.queue)
            /\ Cardinality(entry.queue) = 2
            /\ \E a, b \in entry.queue : a.time < stop.t /\ b.time >= stop.t) =>
               /\ Len(returned) = 1
               /\ Len(RunExecuted) = 1
               /\ event_queue = {e \in entry.queue : e.time >= stop.t}

C3_Witness ==
    /\ pc = "returned"
    /\ stop.kind = "max_time"
    /\ entry.log = <<>>
    /\ Cardinality(entry.queue) = 2
    /\ \E a, b \in entry.queue :
           /\ a.time < stop.t /\ b.time > stop.t
           /\ a.action = RetAction
           /\ ExecPos(a.id) > 0
           /\ event_queue = {b}
    /\ Len(returned) = 1

\* The events an action scheduled, with a positive delay, while it ran.
Reentrant ==
    {n \in 1..Len(scheduled) :
        scheduled[n].by # 0 /\ scheduled[n].event.time > scheduled[n].clock}

TimeOf(id) == scheduled[id].event.time

\* C4 as stated: an event scheduled by an action at current_time + d, d > 0,
\* is executed after every already-queued event whose time is less than or
\* equal to its own, and before every already-queued event whose time is
\* greater.
C4_AfterEarlierOrEqual ==
    \A n \in Reentrant : \A b \in scheduled[n].queued :
        /\ (TimeOf(b) <= TimeOf(n) /\ ExecPos(n) > 0) =>
               (ExecPos(b) > 0 /\ ExecPos(b) < ExecPos(n))
        /\ (TimeOf(b) > TimeOf(n) /\ ExecPos(b) > 0) =>
               (ExecPos(n) > 0 /\ ExecPos(n) < ExecPos(b))

\* C4 as amended: such an event, if it is executed, is executed after every
\* already-queued event whose time is strictly less than its own, and
\* before every already-queued event whose time is strictly greater; its
\* order with an already-queued event of equal time is open.
C4_AfterStrictlyEarlier ==
    \A n \in Reentrant : \A b \in scheduled[n].queued :
        /\ (TimeOf(b) < TimeOf(n) /\ ExecPos(n) > 0) =>
               (ExecPos(b) > 0 /\ ExecPos(b) < ExecPos(n))
        /\ (TimeOf(b) > TimeOf(n) /\ ExecPos(b) > 0) =>
               (ExecPos(n) > 0 /\ ExecPos(n) < ExecPos(b))

C4_Witness ==
    \E n \in Reentrant : \E b \in scheduled[n].queued :
        /\ TimeOf(b) < TimeOf(n)
        /\ ExecPos(b) > 0
        /\ ExecPos(n) > ExecPos(b)

C4_WitnessLater ==
    \E n \in Reentrant : \E b \in scheduled[n].queued :
        /\ TimeOf(b) > TimeOf(n)
        /\ ExecPos(n) > 0
        /\ ExecPos(b) > ExecPos(n)

C4_WitnessEqual ==
    \E n \in Reentrant : \E b \in scheduled[n].queued :
        /\ TimeOf(b) = TimeOf(n)
        /\ ExecPos(n) > 0
        /\ ExecPos(b) > ExecPos(n)

\* C5: an event that is inactive when the loop dequeues it yields no result
\* and schedules nothing, and still leaves the queue, sets current_time to
\* its time and is logged, with no result, when the filter accepts it.
C5_InactiveEvent ==
    /\ \A k \in 1..Len(executed) :
           ~executed[k].active =>
               /\ executed[k].result = None
               /\ \A n \in 1..Len(scheduled) : scheduled[n].by # executed[k].id
               /\ \A e \in event_queue : e.id # executed[k].id
               /\ executed[k].accepted =
                      (\E i \in 1..Len(event_log) :
                           /\ event_log[i].event.id = executed[k].id
                           /\ event_log[i].result = None)
    /\ (pc = "loop" /\ RunExecuted # <<>> /\ ~executed[Len(executed)].active) =>
           current_time = executed[Len(executed)].time
    /\ (pc = "exec" /\ ~event[1].active) =>
           /\ current_time = event[1].time
           /\ event[1] \notin event_queue

C5_Witness ==
    /\ pc = "loop"
    /\ RunExecuted # <<>>
    /\ LET last == executed[Len(executed)] IN
           /\ ~last.active
           /\ last.accepted
           /\ scheduled[last.id].event.action = RetAction
           /\ last.time # entry.time

\* The result and the scheduling that executing the event of scheduled[id]
\* is to show when its action runs.
ActedAsScheduled(x) ==
    LET ev == scheduled[x.id].event IN
    /\ (ev.active /\ ev.action = RetAction) => x.result = Some("Executed")
    /\ (ev.active /\ ev.action.kind = "timeout") =>
           \E n \in 1..Len(scheduled) :
               /\ scheduled[n].by = x.id
               /\ scheduled[n].event.time = ev.time + ev.action.delay

\* C6: on a scheduler whose log is empty, a run whose filter rejects every
\* event still dequeues and executes the events, advances the clock and
\* lets actions schedule, while event_log and the returned log stay empty.
C6_RejectAllFilter ==
    (InCall /\ log_filter = "reject_all" /\ entry.log = <<>>) =>
        /\ event_log = <<>>
        /\ pc = "returned" => returned = <<>>
        /\ \A k \in 1..Len(RunExecuted) :
               /\ ~RunExecuted[k].accepted
               /\ ActedAsScheduled(RunExecuted[k])
               /\ \A e \in event_queue : e.id # RunExecuted[k].id
        /\ (pc \in {"loop", "returned"} /\ RunExecuted # <<>>) =>
               current_time = executed[Len(executed)].time
        /\ (pc = "returned" /\ stop = StopNever) =>
               /\ event_queue = {}
               /\ \A e \in entry.queue : ExecPos(e.id) > entry.nexec

C6_Witness ==
    /\ pc = "returned"
    /\ log_filter = "reject_all"
    /\ entry.log = <<>>
    /\ Len(RunExecuted) = 3
    /\ \E k \in 1..3 : RunExecuted[k].result = Some("Executed")
    /\ \E k \in 1..3 : scheduled[RunExecuted[k].id].by # 0
    /\ current_time > entry.time

\* C7: every event of the log that run returns is a copy whose action is
\* erased: running the copy yields no result and schedules nothing, and its
\* time, active flag and context are those of the event that was executed.
C7_ReturnedCopies ==
    /\ \A i \in 1..Len(returned) :
           LET copy == returned[i].event
               orig == scheduled[copy.id].event
           IN  /\ copy.action = NoopAction
               /\ Event_run(copy, current_time, Len(scheduled) + 1) =
                      [result |-> None, scheduled |-> {}]
               /\ copy.time = orig.time
               /\ copy.active = orig.active
               /\ copy.context = orig.context
               /\ ExecPos(copy.id) > 0
    /\ pc = "returned" =>
           /\ Len(returned) = Len(event_log)
           /\ \A i \in 1..Len(returned) :
                  /\ returned[i].event.id = event_log[i].event.id
                  /\ returned[i].result = event_log[i].result

C7_Witness ==
    /\ pc = "returned"
    /\ \E i \in 1..Len(returned) :
           LET orig == scheduled[returned[i].event.id].event IN
           /\ orig.action = RetAction
           /\ orig.context = KeyCtx
           /\ orig.active
           /\ returned[i].result = Some("Executed")
           /\ returned[i].event.context = KeyCtx

\* C8: a call of run whose stop predicate is true on entry dequeues and
\* executes nothing: the queue, current_time and event_log are as before
\* the call and the returned log is the log as it was before the call.
C8_StopTrueOnEntry ==
    (pc = "returned" /\ StopCall(stop, entry.time, entry.queue)) =>
        /\ event_queue = entry.queue
        /\ current_time = entry.time
        /\ event_log = entry.log
        /\ Len(executed) = entry.nexec
        /\ returned = CloneLog(entry.log)

C8_Witness ==
    /\ pc = "returned"
    /\ stop = StopAlways
    /\ entry.queue # {}
    /\ entry.log # <<>>
    /\ returned = CloneLog(entry.log)

Accepted(seq) == SelectSeq(seq, LAMBDA x : x.accepted)

\* C9: run returns the whole accumulated log: the entries the earlier calls
\* returned, in order, followed by the entries this call added.
C9_ReturnsAccumulatedLog ==
    /\ pc \in {"loop", "exec"} => returned = CloneLog(entry.log)
    /\ pc = "returned" =>
           LET old == Len(entry.log)
               new == Accepted(RunExecuted)
           IN  /\ Len(returned) = old + Len(new)
               /\ \A i \in 1..old : returned[i] = CloneLog(entry.log)[i]
               /\ \A j \in 1..Len(new) :
                      /\ returned[old + j].event.id = new[j].id
                      /\ returned[old + j].result = new[j].result

C9_Witness ==
    /\ pc = "returned"
    /\ entry.log # <<>>
    /\ Accepted(RunExecuted) # <<>>
    /\ Len(returned) = Len(entry.log) + Len(Accepted(RunExecuted))

\* One evaluation of the loop's condition and what follows it.
LoopStep == RunStop \/ RunPop \/ RunBreak

\* C10: with the queue empty the loop ends whatever the stop predicate
\* says: a run on an empty queue returns with current_time, the queue and
\* the log unchanged, and a run whose queue becomes empty returns there.
C10_EmptyQueueEndsLoop ==
    /\ (pc = "returned" /\ entry.queue = {}) =>
           /\ current_time = entry.time
           /\ event_queue = {}
           /\ event_log = entry.log
           /\ Len(executed) = entry.nexec
    /\ (pc = "loop" /\ event_queue = {}) =>
           /\ ENABLED (LoopStep /\ pc' = "returned")
           /\ ~ENABLED (LoopStep /\ pc' # "returned")
    /\ (pc = "returned" /\ stop = StopNever) => event_queue = {}

C10_Witness ==
    /\ pc = "returned"
    /\ stop = StopNever
    /\ entry.queue # {}
    /\ event_queue = {}
    /\ Len(RunExecuted) >= 2

C10_WitnessEmptyAtCall ==
    /\ pc = "returned"
    /\ stop = StopNever
    /\ entry.queue = {}
    /\ entry.time # 0

---------------------------------------------------------------------------
\* The queue after the step is the queue before it and the one new event ev.
GrowsBy(ev) ==
    /\ ev \notin event_queue
    /\ event_queue' = event_queue \cup {ev}
    /\ Cardinality(event_queue') = Cardinality(event_queue) + 1

TimeoutCall(d) == \E a \in TimeoutArgs : Timeout(d, a[1], a[2])

\* The executing event's action calls timeout on the scheduler.
TimeoutInAction ==
    /\ RunExec
    /\ event[1].active
    /\ event[1].action.kind = "timeout"

\* C11: timeout(delay, action, context) adds exactly one event to the queue,
\* active, with time current_time + delay, and changes neither current_time
\* nor the log; on a fresh scheduler the time is delay, and called from an
\* action it is the executing event's time plus delay.
C11_TimeoutAddsOneEvent ==
    [][/\ \A d \in Delays :
            TimeoutCall(d) =>
                /\ \E ev \in event_queue' :
                       /\ GrowsBy(ev)
                       /\ ev.active
                       /\ ev.time = current_time + d
                       /\ (scheduled = <<>> /\ executed = <<>>) => ev.time = d
                /\ current_time' = current_time
                /\ event_log' = event_log
       /\ TimeoutInAction =>
              /\ \E ev \in event_queue' :
                     /\ GrowsBy(ev)
                     /\ ev.active
                     /\ ev.time = event[1].time + event[1].action.delay
              /\ current_time' = current_time
      ]_vars

\* A timeout called between runs at clock 2, after an action's own timeout.
C11_Witness ==
    /\ pc = "idle"
    /\ current_time = 2
    /\ \E e \in event_queue :
           /\ scheduled[e.id].by = 0
           /\ scheduled[e.id].clock = 2
           /\ e.time = 3
           /\ e.active
    /\ \E n \in 1..Len(scheduled) :
           /\ scheduled[n].by # 0
           /\ TimeOf(n) = TimeOf(scheduled[n].by) + 1

\* A step in which the caller schedules an event, by schedule or by the
\* schedule that timeout ends with.
CallerSchedules == Idle /\ Len(scheduled') = Len(scheduled) + 1

\* C12: schedule(event) succeeds for any event time, below current_time and
\* negative times included: the queue grows by exactly that event, and
\* current_time, the log and the events already queued are unchanged.
C12_ScheduleAlwaysSucceeds ==
    /\ [][CallerSchedules =>
              LET ev == scheduled'[Len(scheduled')].event IN
              /\ GrowsBy(ev)
              /\ \A e \in event_queue : e \in event_queue'
              /\ current_time' = current_time
              /\ event_log' = event_log
         ]_vars
    /\ []((Idle /\ Calls < MaxCalls) =>
              /\ \A t \in Times, a \in EventArgs :
                     ENABLED Schedule(t, a[1], a[2], a[3])
              /\ \A d \in Delays : ENABLED TimeoutCall(d))

\* An event of negative time, below current_time, scheduled onto a queue
\* that held an event.
C12_Witness ==
    \E e \in event_queue :
        /\ scheduled[e.id].by = 0
        /\ e.time < 0
        /\ e.time < scheduled[e.id].clock
        /\ scheduled[e.id].queued # {}
        /\ \A b \in scheduled[e.id].queued : \E q \in event_queue : q.id = b

---------------------------------------------------------------------------
QueuedIds == {e.id : e \in event_queue}
ExecutedIds == {executed[k].id : k \in 1..Len(executed)}

\* C13: every scheduled event leaves the queue at most once, is executed at
\* most once and is never put back: the events ever scheduled are as many
\* as the events queued plus the events executed (the event being executed
\* counted with them), and an event is dequeued only when no pending event
\* has a smaller time.
C13_ExecutedAtMostOnce ==
    /\ Len(scheduled) = Cardinality(event_queue) + Len(executed) + Len(event)
    /\ Cardinality(QueuedIds) = Cardinality(event_queue)
    /\ Cardinality(ExecutedIds) = Len(executed)
    /\ QueuedIds \cap ExecutedIds = {}
    /\ QueuedIds \cup ExecutedIds \cup {e.id : e \in {event[i] : i \in 1..Len(event)}}
           = 1..Len(scheduled)
    /\ pc = "exec" =>
           /\ event[1].id \notin QueuedIds \cup ExecutedIds
           /\ \A e \in event_queue : e.time >= event[1].time
    /\ pc # "exec" => event = None

\* An event dequeued ahead of a later one, after another was executed.
C13_Witness ==
    /\ pc = "exec"
    /\ Len(executed) >= 1
    /\ \E e \in event_queue : e.time > event[1].time
    /\ Len(scheduled) = 3

\* The time of the most recently executed event, 0 if there is none.
LastExecutedTime ==
    IF executed = <<>> THEN 0 ELSE executed[Len(executed)].time

\* C14: between operations current_time is the time of the most recently
\* executed event, or 0 if no event has been executed; schedule and timeout
\* do not change it.
C14_ClockIsLastExecutedTime ==
    /\ pc \in {"idle", "returned", "loop"} => current_time = LastExecutedTime
    /\ \A n \in 1..Len(scheduled) :
           scheduled[n].by = 0 =>
               \/ scheduled[n].clock = 0
               \/ \E k \in 1..Len(executed) : scheduled[n].clock = executed[k].time

\* A schedule or timeout call made after an execution at a time other than
\* 0 has left the clock at that time.
C14_Witness ==
    /\ pc = "idle"
    /\ executed # <<>>
    /\ current_time = LastExecutedTime
    /\ current_time # 0
    /\ \E e \in event_queue :
           /\ scheduled[e.id].by = 0
           /\ scheduled[e.id].clock = current_time
           /\ e.time # current_time

---------------------------------------------------------------------------
\* What the executed events did, in order: the time and the closure's kind.
Trip == [k \in 1..Len(executed) |->
            <<executed[k].time, scheduled[executed[k].id].event.action.kind>>]

\* main of the documented car: car at time 0, then run_until_max_time(15).
CarRunReturned ==
    /\ pc = "returned"
    /\ stop = stop_at_max_time_factory(MAX_TIME)
    /\ entry.time = 0
    /\ entry.nexec = 0
    /\ Cardinality(entry.queue) = 1

\* C15: for the documented car (park for 5, drive for 2, the first event
\* scheduled at 5 from time 0), run_until_max_time(15) executes events at
\* exactly 5, 7, 12, 14 in that order, driving at 5 and 12 and parking at 7
\* and 14, and stops with current_time = 14 and the event at 19 queued.
C15_CarTrip ==
    CarRunReturned =>
        /\ Trip = << <<5, "drive">>, <<7, "park">>, <<12, "drive">>, <<14, "park">> >>
        /\ current_time = 14
        /\ Cardinality(event_queue) = 1
        /\ \A e \in event_queue : e.time = 19 /\ e.action = DriveAction
        /\ Len(returned) = 4

C15_Witness ==
    /\ CarRunReturned
    /\ Len(executed) = 4
    /\ \E e \in event_queue : e.time = 19

---------------------------------------------------------------------------
\* The events the execution of event id scheduled.
ScheduledBy(id) == {n \in 1..Len(scheduled) : scheduled[n].by = id}

\* The entries of the log for event id.
LogEntries(id) == {i \in 1..Len(event_log) : event_log[i].event.id = id}

\* C16: executing an active event calls its action exactly once, on the
\* scheduler, and yields the result the action returns; the log entry of
\* the execution pairs the event with that result; an event made without an
\* action yields no result and changes nothing in the scheduler.
C16_RunYieldsActionResult ==
    /\ [](\A k \in 1..Len(executed) :
            LET x == executed[k]
                ev == scheduled[x.id].event
            IN  /\ (x.active /\ ev.action = RetAction) =>
                       /\ x.result = Some("Executed")
                       /\ ScheduledBy(x.id) = {}
                /\ (x.active /\ ev.action.kind = "timeout") =>
                       /\ x.result = None
                       /\ Cardinality(ScheduledBy(x.id)) = 1
                       /\ \A n \in ScheduledBy(x.id) :
                              /\ scheduled[n].clock = ev.time
                              /\ TimeOf(n) = ev.time + ev.action.delay
                /\ ev.action = NoopAction =>
                       /\ x.result = None
                       /\ ScheduledBy(x.id) = {}
                /\ x.accepted =>
                       /\ Cardinality(LogEntries(x.id)) = 1
                       /\ \A i \in LogEntries(x.id) :
                              /\ event_log[i].result = x.result
                              /\ event_log[i].event.time = ev.time
                              /\ event_log[i].event.context = ev.context)
    /\ [][(RunExec /\ event[1].action = NoopAction) =>
              /\ event_queue' = event_queue
              /\ current_time' = current_time
              /\ executed'[Len(executed')].result = None
         ]_vars

\* A logged result of an action, an action that scheduled, and an event
\* without an action executed while another event was pending.
C16_Witness ==
    /\ \E i \in 1..Len(event_log) :
           /\ event_log[i].result = Some("Executed")
           /\ scheduled[event_log[i].event.id].event.action = RetAction
    /\ \E k \in 1..Len(executed) :
           /\ executed[k].active
           /\ scheduled[executed[k].id].event.action = NoopAction
           /\ scheduled[executed[k].id].by # 0
           /\ executed[k].result = None

---------------------------------------------------------------------------
\* C17: the run loop appends to event_log a duplicated event whose action
\* is erased: no entry of event_log holds the live action of the executed
\* event, and running an event taken from event_log returns no result and
\* schedules nothing.
C17_LogHoldsErasedCopies ==
    \A i \in 1..Len(event_log) :
        /\ event_log[i].event.action = NoopAction
        /\ Event_run(event_log[i].event, current_time, Len(scheduled) + 1) =
               [result |-> None, scheduled |-> {}]

\* C18: whenever run has returned and the queue is not empty, current_time
\* is at most the time of the earliest pending event, after any sequence of
\* schedule, timeout and run calls.
C18_ClockAtMostEarliestPending ==
    (pc = "returned" /\ event_queue # {}) =>
        \A e \in event_queue : current_time <= e.time

\* The pending events scheduled with a time below the clock of that moment.
PastScheduled ==
    {e \in event_queue : e.time < scheduled[e.id].clock}

\* C19: an event scheduled with a time below current_time, by schedule or
\* by timeout with a negative delay, is accepted into the queue, and if its
\* time is the smallest among the pending events it is the next event
\* executed, and current_time is then set to its time: it moves backward.
C19_PastEventMovesClockBack ==
    /\ [](\A n \in 1..Len(scheduled) :
            n \in QueuedIds \cup ExecutedIds \cup {e.id : e \in {event[i] : i \in 1..Len(event)}})
    /\ [][RunPop =>
              \A p \in PastScheduled :
                  /\ (p.time < current_time /\ \A o \in event_queue : p.time <= o.time) =>
                         /\ event'[1].time = p.time
                         /\ current_time' = p.time
                         /\ current_time' < current_time
                  /\ (\A o \in event_queue \ {p} : p.time < o.time) =>
                         /\ event' = Some(p)
                         /\ current_time' = p.time
                         /\ pc' = "exec"
         ]_vars
    /\ [][RunExec =>
              /\ executed'[Len(executed')].id = event[1].id
              /\ executed'[Len(executed')].time = current_time
              /\ current_time' = current_time
         ]_vars

\* An event scheduled by the caller below the clock has been executed and
\* the clock stands at its time, below the time executed before it.
C19_Witness ==
    /\ pc = "loop"
    /\ Len(executed) >= 2
    /\ LET last == executed[Len(executed)]
           prev == executed[Len(executed) - 1]
       IN  /\ scheduled[last.id].by = 0
           /\ last.time < scheduled[last.id].clock
           /\ last.time < prev.time
           /\ current_time = last.time

\* A timeout with a negative delay, called by an action, executed next.
C19_WitnessNegativeDelay ==
    /\ pc = "loop"
    /\ Len(executed) >= 2
    /\ LET last == executed[Len(executed)]
           prev == executed[Len(executed) - 1]
       IN  /\ scheduled[last.id].by = prev.id
           /\ last.time < prev.time
           /\ current_time = last.time

\* A run with the stop predicate current_time >= t, called below t.
TimeGeRun == InCall /\ stop.kind = "time_ge" /\ entry.time < stop.t

C20_WitnessStopsAfterFirst ==
    /\ TimeGeRun
    /\ pc = "returned"
    /\ Len(RunExecuted) = 2
    /\ RunExecuted[1].time < stop.t
    /\ event_queue # {}

---------------------------------------------------------------------------
\* A call of run_until_max_time made below its limit has returned.
MaxTimeRunReturned ==
    /\ pc = "returned"
    /\ stop.kind = "max_time"
    /\ entry.time < stop.t

\* C21: when run_until_max_time(max_time), called with current_time below
\* max_time, returns, current_time is below max_time and no pending event
\* has a time below max_time, the events scheduled by actions during the
\* call included.
C21_MaxTimeRunPostState ==
    MaxTimeRunReturned =>
        /\ current_time < stop.t
        /\ \A e \in event_queue : e.time >= stop.t
        /\ \A n \in 1..Len(scheduled) :
               (scheduled[n].by # 0 /\ TimeOf(n) < stop.t) => n \in ExecutedIds

\* An action of the call scheduled an event that stays pending, and one
\* scheduled an event below the limit, which was executed.
C21_Witness ==
    /\ MaxTimeRunReturned
    /\ \E e \in event_queue : scheduled[e.id].by \in {x.id : x \in entry.queue}
    /\ Len(RunExecuted) >= 1

C21_WitnessReentrantExecuted ==
    /\ MaxTimeRunReturned
    /\ \E k \in 1..Len(RunExecuted) :
           scheduled[RunExecuted[k].id].by \in {x.id : x \in entry.queue}

\* The limits the stop predicate is evaluated for.
Limits == {-1, 0, 1, 2, 3}

\* C22: the stop predicate of run_until_max_time(max_time) is true in a
\* scheduler state exactly when current_time >= max_time, or the queue is
\* empty, or the earliest pending event's time is >= max_time.
C22_MaxTimePredicate ==
    \A m \in Limits :
        StopCall(stop_at_max_time_factory(m), current_time, event_queue)
            <=> \/ current_time >= m
                \/ event_queue = {}
                \/ \A e \in event_queue : e.time >= m

\* A state in which the predicate is false for one limit and true by the
\* clock alone for another.
C22_Witness ==
    /\ Cardinality(event_queue) >= 2
    /\ \E e, o \in event_queue : e.time < o.time
    /\ \E m \in Limits :
           /\ ~StopCall(stop_at_max_time_factory(m), current_time, event_queue)
           /\ \E e \in event_queue : e.time >= m
    /\ \E m \in Limits :
           /\ StopCall(stop_at_max_time_factory(m), current_time, event_queue)
           /\ \E e \in event_queue : e.time < m

\* A state in which the predicate is true by the earliest pending time
\* alone.
C22_WitnessByEarliest ==
    /\ Cardinality(event_queue) >= 2
    /\ \E m \in Limits :
           /\ StopCall(stop_at_max_time_factory(m), current_time, event_queue)
           /\ current_time < m

---------------------------------------------------------------------------
\* The events scheduled in the step.
NewlyScheduled == (Len(scheduled) + 1)..Len(scheduled')

\* C23: within one iteration the loop dequeues the earliest event, sets
\* current_time to its time, runs its action and then applies the filter:
\* an action observes current_time equal to its own event's time and a
\* queue without its own event, and the events it schedules are in the
\* queue before the stop predicate is evaluated again.
C23_IterationOrder ==
    /\ [](pc = "exec" =>
            /\ current_time = event[1].time
            /\ event[1].id \notin QueuedIds
            /\ \A e \in event_queue : e.time >= event[1].time)
    /\ [][RunPop => (pc' = "exec" /\ Len(executed') = Len(executed))]_vars
    /\ [][RunExec =>
              LET ev == event[1]
                  x == executed'[Len(executed')]
              IN  /\ x.id = ev.id
                  /\ x.accepted = FilterCall(log_filter, ev, x.result)
                  /\ (ev.active /\ ev.action = RetAction) => x.result # None
                  /\ \A n \in NewlyScheduled :
                         /\ scheduled'[n].by = ev.id
                         /\ scheduled'[n].clock = ev.time
                         /\ ev.id \notin scheduled'[n].queued
                         /\ scheduled'[n].event \in event_queue'
                  /\ pc' = "loop"
         ]_vars
    /\ [][(RunStop \/ RunBreak) => (pc = "loop" /\ event = None)]_vars

\* Under a filter that accepts the events with a result: an action's
\* result was logged, and an action scheduled an event while another event
\* was pending.
C23_Witness ==
    /\ log_filter = "has_result"
    /\ pc = "loop"
    /\ \E k \in 1..Len(RunExecuted) :
           RunExecuted[k].accepted /\ RunExecuted[k].result = Some("Executed")
    /\ \E k \in 1..Len(RunExecuted) :
           /\ ~RunExecuted[k].accepted
           /\ ScheduledBy(RunExecuted[k].id) # {}

---------------------------------------------------------------------------
\* The events scheduled so far, as they were when scheduled.
ScheduledEvents == {scheduled[n].event : n \in 1..Len(scheduled)}

\* A < B by PartialOrd::partial_cmp, which is Some(self.cmp(other))
Event_lt(a, b) == Event_cmp(a, b) = -1

\* C24 as stated: for all events A and B, A < B if and only if
\* A.time < B.time, and A == B if and only if A.time == B.time, whatever
\* their action, context and active flag.
C24_LessIffEarlier ==
    \A a, b \in ScheduledEvents :
        /\ Event_lt(a, b) <=> a.time < b.time
        /\ Event_eq(a, b) <=> a.time = b.time

\* C24 as amended: for all events A and B, A < B if and only if
\* A.time > B.time (the comparison is reversed, the earlier event is the
\* greater), and A == B if and only if A.time == B.time, whatever their
\* action, context and active flag.
C24_LessIffLater ==
    \A a, b \in ScheduledEvents :
        /\ Event_lt(a, b) <=> a.time > b.time
        /\ Event_eq(a, b) <=> a.time = b.time
        /\ Event_eq(a, b) <=> Event_cmp(a, b) = 0
        /\ Event_cmp(a, b) = -Event_cmp(b, a)

\* Two events of one time that differ in context and active flag.
C24_Witness ==
    \E a, b \in ScheduledEvents :
        /\ a.time = b.time
        /\ a.context # b.context
        /\ a.active # b.active
        /\ Event_eq(a, b)
        /\ ~Event_lt(a, b)

\* Two events of one time that differ in action, and two of different
\* times of which the later is the lesser.
C24_WitnessAction ==
    \E a, b \in ScheduledEvents :
        /\ a.time = b.time
        /\ a.action # b.action
        /\ Event_eq(a, b)

C24_WitnessLater ==
    \E a, c \in ScheduledEvents :
        /\ c.time < a.time
        /\ a.action # c.action
        /\ Event_lt(a, c)

---------------------------------------------------------------------------
\* The loop dequeues an event that was deactivated before it was scheduled.
PopsDeactivated ==
    /\ RunPop
    /\ ~event'[1].active
    /\ scheduled[event'[1].id].event = event'[1]

\* The loop executes the deactivated event it has dequeued: what the
\* execution leaves alone, and what it does to the log.
ExecDeactivatedFrame ==
    (RunExec /\ ~event[1].active) =>
        /\ event_queue' = event_queue
        /\ current_time' = current_time
        /\ Len(scheduled') = Len(scheduled)
        /\ executed'[Len(executed')].result = None
        /\ event_log' =
               IF FilterCall(log_filter, event[1], None)
               THEN Append(event_log, [event |-> event[1], result |-> None])
               ELSE event_log

\* C25 as stated: executing, through run, an event that was constructed
\* active and deactivated before execution changes no scheduler state other
\* than removing the event from the queue and, if the filter accepts it,
\* appending it to the log.
C25_DeactivatedChangesNothingElse ==
    /\ [][PopsDeactivated =>
              /\ event_queue' = event_queue \ {event'[1]}
              /\ event_log' = event_log
              /\ current_time' = current_time
         ]_vars
    /\ [][ExecDeactivatedFrame]_vars

\* C25 as amended: such an execution changes no scheduler state other than
\* removing the event from the queue, setting current_time to the event's
\* time and, if the filter accepts it, appending it to the log.
C25_DeactivatedSetsClockOnly ==
    /\ [][PopsDeactivated =>
              /\ event_queue' = event_queue \ {event'[1]}
              /\ event_log' = event_log
              /\ current_time' = event'[1].time
         ]_vars
    /\ [][ExecDeactivatedFrame]_vars

\* A deactivated event executed at a time other than the clock before it,
\* rejected by the filter, with another event still pending.
C25_Witness ==
    /\ pc = "loop"
    /\ RunExecuted # <<>>
    /\ event_queue # {}
    /\ LET last == executed[Len(executed)] IN
           /\ ~last.active
           /\ ~last.accepted
           /\ log_filter = "has_result"
           /\ last.id \notin LogIds(event_log)
           /\ current_time = last.time
           /\ last.time # 0

\* A deactivated event executed and logged, without a result.
C25_WitnessLogged ==
    /\ pc = "loop"
    /\ RunExecuted # <<>>
    /\ LET last == executed[Len(executed)] IN
           /\ ~last.active
           /\ last.accepted
           /\ event_log[Len(event_log)].event.id = last.id
           /\ event_log[Len(event_log)].result = None

---------------------------------------------------------------------------
IsPrefix(short, long) ==
    /\ Len(short) <= Len(long)
    /\ SubSeq(long, 1, Len(short)) = short

\* C26: event_log is append-only and in execution order: no operation
\* removes or reorders entries, the log of a later state has the log of
\* every earlier state as a prefix, and the logged events are the executed
\* events, in order, without those the filter rejected.
C26_LogAppendOnly ==
    /\ [][IsPrefix(event_log, event_log')]_vars
    /\ [][Len(event_log') > Len(event_log) =>
              /\ RunExec
              /\ Len(event_log') = Len(event_log) + 1
              /\ event_log'[Len(event_log')].event = event[1]
         ]_vars
    /\ [](LET kept == Accepted(executed) IN
            /\ Len(event_log) = Len(kept)
            /\ \A i \in 1..Len(kept) :
                   /\ event_log[i].event.id = kept[i].id
                   /\ event_log[i].event.time = kept[i].time
                   /\ event_log[i].result = kept[i].result)

\* A log of two entries and more, with a rejected execution between two
\* accepted ones.
C26_Witness ==
    /\ Len(event_log) >= 2
    /\ \E j, k, l \in 1..Len(executed) :
           /\ j < k /\ k < l
           /\ executed[j].accepted
           /\ ~executed[k].accepted
           /\ executed[l].accepted

---------------------------------------------------------------------------
\* A run with a stop predicate that is never true, on events whose actions
\* schedule nothing.
NeverStopRun == InCall /\ stop = StopNever /\ SchedulesNothing(entry.queue)

\* The largest of the times of a non-empty queue.
LargestTime(queue) == CHOOSE t \in {e.time : e \in queue} : \A e \in queue : e.time <= t

\* C27: run with a stop predicate that is never true, on a queue of n
\* events whose actions schedule nothing, eventually returns, after exactly
\* n executions, with the queue empty and current_time the largest
\* scheduled time.
C27_RunTerminates ==
    /\ (NeverStopRun /\ pc # "returned") ~> (NeverStopRun /\ pc = "returned")
    /\ []((NeverStopRun /\ pc = "returned") =>
            /\ Len(RunExecuted) = Cardinality(entry.queue)
            /\ {RunExecuted[k].id : k \in 1..Len(RunExecuted)} =
                   {e.id : e \in entry.queue}
            /\ event_queue = {}
            /\ entry.queue # {} => current_time = LargestTime(entry.queue))
    /\ []((NeverStopRun /\ pc # "returned") =>
            Len(RunExecuted) + Cardinality(event_queue) + Len(event) =
                Cardinality(entry.queue))

\* A run of two events of different times has returned.
C27_Witness ==
    /\ NeverStopRun
    /\ pc = "returned"
    /\ Cardinality(entry.queue) = 2
    /\ Len(RunExecuted) = 2
    /\ RunExecuted[1].time < RunExecuted[2].time
    /\ current_time = RunExecuted[2].time

---------------------------------------------------------------------------
\* An event, a log and a sequence of executions without the ids, which
\* tell the order in which the events were scheduled.
IdFree(ev) == [ev EXCEPT !.id = 0]
IdFreeSeq(seq) ==
    [i \in 1..Len(seq) |-> [event |-> IdFree(seq[i].event), result |-> seq[i].result]]

\* What a run leaves: the executed events in order, the log, the clock and
\* the queue.
Outcome(st) ==
    [exec |-> IdFreeSeq(st.exec),
     log |-> IdFreeSeq(st.log),
     time |-> st.time,
     queue |-> {IdFree(e) : e \in st.queue}]

\* The events an action scheduled during the latest call of run.
ScheduledInRun ==
    {n \in 1..Len(scheduled) :
        \E k \in 1..Len(RunExecuted) : scheduled[n].by = RunExecuted[k].id}

\* The scheduler the latest call of run was made on, with the events of its
\* queue scheduled in the order perm gives.
EntryState(perm) ==
    [time |-> entry.time,
     queue |-> {[e EXCEPT !.id = perm[e.id]] : e \in entry.queue},
     log |-> entry.log,
     exec |-> <<>>,
     nid |-> Len(scheduled) - Cardinality(ScheduledInRun) + 1]

\* The scheduler the latest call of run has left.
ExitState ==
    [time |-> current_time,
     queue |-> event_queue,
     log |-> event_log,
     exec |-> [k \in 1..Len(RunExecuted) |->
                  [event |-> scheduled[RunExecuted[k].id].event,
                   result |-> RunExecuted[k].result]],
     nid |-> Len(scheduled) + 1]

\* The orders in which the events of a queue may have been scheduled.
Orders(queue) ==
    LET ids == {e.id : e \in queue} IN
    {perm \in [ids -> ids] : \A i, j \in ids : perm[i] = perm[j] => i = j}

SameOrder(queue) == [i \in {e.id : e \in queue} |-> i]

DistinctTimes(events) == \A a, b \in events : a.time = b.time => a = b

\* Whatever the order in which the events of the queue were scheduled, the
\* run has the one outcome this run had.
OrderIndependent ==
    /\ ExitState \in RunFrom(EntryState(SameOrder(entry.queue)), stop, log_filter)
    /\ \A perm \in Orders(entry.queue) :
           {Outcome(o) : o \in RunFrom(EntryState(perm), stop, log_filter)} =
               {Outcome(ExitState)}

\* C28 as stated: two schedulers given the same events, of pairwise
\* distinct times, in different schedule orders and run with the same stop
\* predicate and filter produce the same sequence of executed events, the
\* same log, the same final current_time and the same remaining queue.
C28_OrderIndependentGiven ==
    (pc = "returned" /\ DistinctTimes(entry.queue)) => OrderIndependent

\* C28 as amended: the same, when the times are pairwise distinct among the
\* events given and the events their actions schedule during the run.
C28_OrderIndependentAll ==
    (/\ pc = "returned"
     /\ DistinctTimes(entry.queue \cup {scheduled[n].event : n \in ScheduledInRun}))
        => OrderIndependent

\* A run of two given events, the later one scheduled first, and of an
\* event an action scheduled, all of different times.
C28_Witness ==
    /\ pc = "returned"
    /\ Cardinality(entry.queue) = 2
    /\ ScheduledInRun # {}
    /\ DistinctTimes(entry.queue \cup {scheduled[n].event : n \in ScheduledInRun})
    /\ \E a, b \in entry.queue : a.id < b.id /\ a.time > b.time
    /\ Len(RunExecuted) = 3

---------------------------------------------------------------------------
\* The log filters a caller may give: the default, one that rejects every
\* event, and one that accepts the events with a result.
Filters == {"all", "reject_all", "has_result"}

\* What a run leaves, without the log.
NoLog(st) == [exec |-> st.exec, time |-> st.time, queue |-> st.queue]

\* The executions that filter accepts, as log entries.
Kept(exec, filter) ==
    SelectSeq(exec, LAMBDA x : FilterCall(filter, x.event, x.result))

\* C29: the log filter influences only the log: from the same scheduler
\* and with the same stop predicate, runs with different log filters
\* execute the same events in the same order and end with the same
\* current_time and the same queue; only which executed events are in
\* event_log differs.
C29_FilterInfluencesLogOnly ==
    pc = "returned" =>
        LET st == EntryState(SameOrder(entry.queue)) IN
        /\ ExitState \in RunFrom(st, stop, log_filter)
        /\ \A f \in Filters :
               /\ {NoLog(o) : o \in RunFrom(st, stop, f)} =
                      {NoLog(o) : o \in RunFrom(st, stop, log_filter)}
               /\ \A o \in RunFrom(st, stop, f) :
                      o.log = entry.log \o Kept(o.exec, f)

\* A run under the filter on results that logged one of its executions and
\* not another, whose action scheduled an event.
C29_Witness ==
    /\ pc = "returned"
    /\ log_filter = "has_result"
    /\ Len(RunExecuted) >= 2
    /\ \E k \in 1..Len(RunExecuted) : RunExecuted[k].accepted
    /\ \E k \in 1..Len(RunExecuted) :
           ~RunExecuted[k].accepted /\ ScheduledBy(RunExecuted[k].id) # {}
    /\ Len(event_log) < Len(entry.log) + Len(RunExecuted)

---------------------------------------------------------------------------
\* The events in the scheduler's and the caller's hands.
KnownEvents ==
    ScheduledEvents \cup event_queue
        \cup {event_log[i].event : i \in 1..Len(event_log)}
        \cup {returned[i].event : i \in 1..Len(returned)}

\* a and b are the same but, possibly, for the active flag.
SameButActive(a, b) == [a EXCEPT !.active = b.active] = b

ToggleStep ==
    \/ \E c \in HandleCalls : ToggleReturned(c)
    \/ \E c \in HandleCalls : ToggleLogged(c)

Results(log) == [i \in 1..Len(log) |-> log[i].result]

\* C30: activate and deactivate change only the active flag of the event
\* they are called on and are idempotent; an event deactivated and then
\* activated again before it is scheduled behaves on execution like one
\* never deactivated; toggling a handle after the event was executed
\* changes neither the scheduler's clock, nor its queue, nor the results
\* already in the log.
C30_ToggleOnlyFlag ==
    /\ [](\A e \in KnownEvents :
            /\ SameButActive(e, Event_activate(e))
            /\ SameButActive(e, Event_deactivate(e))
            /\ Event_activate(e).active
            /\ ~Event_deactivate(e).active
            /\ Event_activate(Event_activate(e)) = Event_activate(e)
            /\ Event_deactivate(Event_deactivate(e)) = Event_deactivate(e)
            /\ e.active =>
                   /\ Toggle(e, "deactivate_activate") = e
                   /\ Event_run(Toggle(e, "deactivate_activate"), e.time, 0) =
                          Event_run(e, e.time, 0))
    /\ [](\A k \in 1..Len(executed) :
            LET x == executed[k]
                ev == scheduled[x.id].event
            IN  (ev.action = RetAction /\ ev.context = EmptyCtx) =>
                    /\ x.active = ev.active
                    /\ x.result = IF ev.active THEN Some("Executed") ELSE None)
    /\ [][ToggleStep =>
              /\ current_time' = current_time
              /\ event_queue' = event_queue
              /\ Results(event_log') = Results(event_log)
              /\ Results(returned') = Results(returned)
              /\ UNCHANGED <<executed, scheduled>>
         ]_vars

\* An event deactivated and activated again was executed with its result,
\* one left deactivated was executed without, and the logged event of the
\* first has been deactivated since.
C30_Witness ==
    /\ Idle
    /\ \E j, k \in 1..Len(executed) :
           /\ executed[j].result = Some("Executed")
           /\ scheduled[executed[j].id].event.context = EmptyCtx
           /\ executed[k].result = None
           /\ ~executed[k].active
    /\ \E i \in 1..Len(event_log) :
           /\ event_log[i].result = Some("Executed")
           /\ ~event_log[i].event.active

====
